---- MODULE Spec2Model ----
(***************************************************************************)
(* Model of the pompeu benchmark harness.                                  *)
(*                                                                         *)
(*   - the conversation simulator (runCase / runAllCases / runAllModels):  *)
(*     one buyer/store dialogue per (goal, model) pair, persisted under    *)
(*     ./results/<id>.json;                                                *)
(*   - the judge (judge / judgeAll in judger.ts): one evaluator request    *)
(*     per results file, retried by self-recursion, run under p-limit(10), *)
(*     persisted under ./judgements/<id>.json.                             *)
(*                                                                         *)
(* The two stages are separate scripts.  SpecRun is the simulator started  *)
(* for one (goal, model) pair and SpecSim for a batch of pairs, both on an *)
(* empty results directory; SpecJudge is the judge started on a results    *)
(* directory that the simulator has filled, and SpecJudgeQueue the same    *)
(* with one more file, so that two tasks can wait in the limiter's queue.  *)
(* SpecPrompt applies the two prompt builders to arbitrary conversations.  *)
(***************************************************************************)
EXTENDS Integers, Sequences, FiniteSets, TLC

VARIABLES
    runs,        \* simulator: (goal, model) pair -> the state of its runCase
    results,     \* the ./results directory: file name -> persisted record
    now,         \* the wall clock read by Date.now()
    rareLeft,    \* how many more texts other than CommonText the models may return
    jpc,         \* judge: position of judgeAll / the top-level await
    fi,          \* judge: index of the next directory entry judgeAll reads
    tasks,       \* judge: the promises pushed by judgeAll, in submission order
    judgements,  \* the ./judgements directory: id -> persisted record
    input,       \* prompt builders: the conversation they are applied to
    prompts      \* prompt builders: the prompt each of them returned

vars == <<runs, results, now, rareLeft, jpc, fi, tasks, judgements,
          input, prompts>>

simVars == <<runs, now, rareLeft>>
judgeVars == <<jpc, fi, tasks, judgements>>
promptVars == <<input, prompts>>

----------------------------------------------------------------------------
(* Bounds of the model *)

\* Date.now() takes the values 0..MaxClock
MaxClock == 1
\* the models return a text other than CommonText (an empty text, or another
\* sentence) at most MaxRare times in one batch
MaxRare == 1
\* the prompt builders are applied to conversations of at most MaxLen messages
MaxLen == 3

----------------------------------------------------------------------------
(* Simulator: data *)

MAX_CONVERSATION_LENGTH == 10

\* a subset of userCases and of the modelsToJudge registry
Goals == {"address", "returns"}
ModelNames == {"openaiO3"}
Pairs == Goals \X ModelNames

\* the entries of the registry as JSON.stringify writes a model handle: the
\* data fields of the object languageModel("o3-2025-04-16") returns
ModelsToJudge ==
    [ name \in ModelNames |->
        [ specificationVersion |-> "v2",
          provider             |-> "openai",
          modelId              |-> "o3-2025-04-16" ] ]

\* the order in which runAllModels calls runCase: Object.entries(modelsToJudge)
\* outside, goals.map inside
GoalOrder == <<"address", "returns">>
ModelOrder == <<"openaiO3">>
CallOrder ==
    [ k \in 1..(Len(ModelOrder) * Len(GoalOrder)) |->
        << GoalOrder[((k - 1) % Len(GoalOrder)) + 1],
           ModelOrder[((k - 1) \div Len(GoalOrder)) + 1] >> ]
CallPosition(p) == CHOOSE k \in 1..Len(CallOrder) : CallOrder[k] = p

\* texts a model call can return
Texts == {"", "hola", "adeu"}

\* the text the models return when nothing else is chosen
CommonText == "hola"

\* staticToolResults of a buyer call: no tool invoked, or finishedGoal
\* invoked with either value of its finished flag
ToolResults ==
    { <<>>,
      << [toolName |-> "finishedGoal", finished |-> TRUE]  >>,
      << [toolName |-> "finishedGoal", finished |-> FALSE] >> }

\* identifiers nanoid() can return (no dot is in its alphabet)
NanoIds == {"id1", "id2", "id3"}

Message(from, text) == [from |-> from, message |-> text]

\* const language = "catalan"
Language == "catalan"

\* the store persona document
StoreGoal == "storeGoal"

\* the system instruction of the buyer: the template with the goal, the
\* cut-off and the language filled in
BuyerInstruction(goal, language) ==
    [ template |-> "buyer", goal |-> goal,
      cutOff |-> MAX_CONVERSATION_LENGTH, language |-> language ]

\* variant: nothing is filtered out
Replayed_All(m) == TRUE

\* the filter m => (m.message?.length ?? 0) > 0
Replayed(m) == Len(m.message) > 0

\* mapConversationMessageToModelMessage of conversationForUser
UserSideMessage(m) ==
    [ role |-> IF m.from = "buyer" THEN "assistant" ELSE "user",
      content |-> m.message ]

\* variant: the mapping of the buyer side, copied unchanged
StoreSideMessage_Copied(m) ==
    [ role |-> IF m.from = "buyer" THEN "assistant" ELSE "user",
      content |-> m.message ]

\* mapConversationMessageToModelMessage of conversationForStore
StoreSideMessage(m) ==
    [ role |-> IF m.from = "store" THEN "assistant" ELSE "user",
      content |-> m.message ]

ConversationForUser(conversation, goal, language) ==
    LET kept == SelectSeq(conversation, Replayed)
    IN << [role |-> "system", content |-> BuyerInstruction(goal, language)],
          [role |-> "assistant", content |-> "Connected to store 'Mountain Peak'"] >>
       \o [k \in 1..Len(kept) |-> UserSideMessage(kept[k])]

ConversationForStore(conversation, goal) ==
    LET kept == SelectSeq(conversation, Replayed)
    IN << [role |-> "system", content |-> goal] >>
       \o [k \in 1..Len(kept) |-> StoreSideMessage(kept[k])]

\* variant: the result is looked up under another name and never found
HasFinishedGoal_WrongName(toolResults) ==
    \E k \in 1..Len(toolResults) : toolResults[k].toolName = "finished"

\* variant: the tool call counts only when it reports finished: true
HasFinishedGoal_OnlyIfFinished(toolResults) ==
    \E k \in 1..Len(toolResults) :
        toolResults[k].toolName = "finishedGoal" /\ toolResults[k].finished

\* staticToolResults.some((result) => result.toolName === "finishedGoal")
HasFinishedGoal(toolResults) ==
    \E k \in 1..Len(toolResults) : toolResults[k].toolName = "finishedGoal"

\* variant: one iteration too many
LoopContinues_Inclusive(i) == i <= MAX_CONVERSATION_LENGTH

\* the loop condition i < MAX_CONVERSATION_LENGTH
LoopContinues(i) == i < MAX_CONVERSATION_LENGTH

\* variant: every run writes the same file
ResultsFile_Shared(id) == <<"run", "json">>

\* the name of the file runCase writes, as its dot-separated segments
ResultsFile(id) == <<id, "json">>

\* the object runCase serialises into ./results/<id>.json
SimulationRecord(goal, modelName, model, conversation, startTime, endTime) ==
    [ goal         |-> goal,
      modelName    |-> modelName,
      model        |-> model,
      conversation |-> conversation,
      startTime    |-> startTime,
      endTime      |-> endTime ]

\* Bun.write(path, data): creates or replaces the file
BunWrite(dir, file, data) ==
    [f \in DOMAIN dir \cup {file} |-> IF f = file THEN data ELSE dir[f]]

\* the statements of runCase after the try/catch: take endTime, write the
\* results file
PersistRun(dir, p, r, endTime) ==
    BunWrite(dir, ResultsFile(r.id),
             SimulationRecord(p[1], p[2], ModelsToJudge[p[2]], r.conversation,
                              r.startTime, endTime))

\* variant: the catch block returns, the write is skipped
AfterCatch_Return(dir, p, r, endTime) == dir

\* the catch block of runCase logs the error and the partial conversation
\* and falls through to the statements after the try/catch
AfterCatch(dir, p, r, endTime) == PersistRun(dir, p, r, endTime)

\* variant: an empty text is not pushed
Push_SkipEmpty(conversation, from, text) ==
    IF text = "" THEN conversation
    ELSE Append(conversation, Message(from, text))

\* conversation.push({ from, message: text })
Push(conversation, from, text) == Append(conversation, Message(from, text))

\* the messages of the buyer-side generateText call
BuyerCallPrompt(conversation, goal) ==
    ConversationForUser(conversation, goal, Language)

\* variant: the prompt is built before the buyer message is pushed
StoreCallPrompt_Stale(conversation) ==
    ConversationForStore(SubSeq(conversation, 1, Len(conversation) - 1),
                         StoreGoal)

\* the messages of the store-side generateText call
StoreCallPrompt(conversation) == ConversationForStore(conversation, StoreGoal)

----------------------------------------------------------------------------
(* Simulator: state *)

\* pc: "idle"     runCase not called yet
\*     "buyer"    awaiting the buyer-side generateText of iteration i
\*     "store"    awaiting the store-side generateText of iteration i
\*     "returned" runCase has returned
\* ended (history): how the loop was left
\* calls (history): number of generateText calls issued so far
\* toolAt (history): the iteration, counted from 1, whose buyer call returned
\*                   a finishedGoal tool result; 0 when none has
\* tools (history): the staticToolResults of the last buyer call
\* pending (history): the messages of the outstanding generateText call
\* answered (history): number of generateText calls that returned or threw
\* produced (history): the texts of the calls whose message was pushed
\* writes (history): number of Bun.write calls of the run
\* starts (history): number of calls of runCase for the pair
IdleRun ==
    [ pc |-> "idle", id |-> "", startTime |-> 0, i |-> 0,
      conversation |-> <<>>, ended |-> "", calls |-> 0, toolAt |-> 0,
      tools |-> <<>>, pending |-> <<>>, answered |-> 0, produced |-> <<>>,
      writes |-> 0, starts |-> 0 ]

JudgeOff ==
    /\ jpc = "off"
    /\ fi = 0
    /\ tasks = <<>>
    /\ judgements = <<>>

NoPrompts == [user |-> <<>>, store |-> <<>>]

PromptOff ==
    /\ input = <<>>
    /\ prompts = NoPrompts

\* one (goal, model) pair; the models may return texts other than CommonText
InitRun ==
    /\ runs = [p \in {<<"address", "openaiO3">>} |-> IdleRun]
    /\ results = <<>>
    /\ now = 0
    /\ rareLeft = MaxRare
    /\ JudgeOff
    /\ PromptOff

\* the batch of all pairs
InitSim ==
    /\ runs = [p \in Pairs |-> IdleRun]
    /\ results = <<>>
    /\ now = 0
    /\ rareLeft = 0
    /\ JudgeOff
    /\ PromptOff

\* the wall clock advances
Tick ==
    /\ now < MaxClock
    /\ now' = now + 1
    /\ UNCHANGED <<runs, results, rareLeft, judgeVars, promptVars>>

\* runAllModels(userCases, modelsToJudge): every runCase is called in the same
\* synchronous block, in CallOrder, and runs up to its first await: it draws
\* its id, reads the clock, and issues the buyer call of iteration 0.  The
\* clock may advance between the reads of two runs.  nanoid() draws 21
\* symbols at random: the identifiers of one batch are taken to be distinct.
RunAllModels ==
    /\ \A p \in DOMAIN runs : runs[p].pc = "idle"
    /\ \E ids \in [DOMAIN runs -> NanoIds], times \in [DOMAIN runs -> now..MaxClock] :
          /\ \A p, q \in DOMAIN runs : p # q => ids[p] # ids[q]
          /\ \A p, q \in DOMAIN runs :
                CallPosition(p) < CallPosition(q) => times[p] <= times[q]
          /\ runs' = [p \in DOMAIN runs |->
                        [ IdleRun EXCEPT !.pc = "buyer", !.id = ids[p],
                                         !.startTime = times[p], !.calls = 1,
                                         !.starts = 1,
                                         !.pending = BuyerCallPrompt(<<>>, p[1]) ]]
          /\ \E p \in DOMAIN runs : now' = times[p]
          /\ \A p \in DOMAIN runs : times[p] <= now'
    /\ UNCHANGED <<results, rareLeft, judgeVars, promptVars>>

\* the text of a model call: a text other than CommonText uses up the budget
TextAllowed(text) == text = CommonText \/ rareLeft > 0
RareLeftAfter(text) == IF text = CommonText THEN rareLeft ELSE rareLeft - 1

\* the buyer-side generateText of run p returns text and staticToolResults
BuyerReturns(p) ==
    /\ runs[p].pc = "buyer"
    /\ \E text \in Texts, toolResults \in ToolResults :
          /\ TextAllowed(text)
          /\ IF HasFinishedGoal(toolResults)
             THEN \* break; fall through to the write
                  /\ runs' = [runs EXCEPT ![p].pc = "returned",
                                          ![p].ended = "finished",
                                          ![p].toolAt = runs[p].i + 1,
                                          ![p].tools = toolResults,
                                          ![p].pending = <<>>,
                                          ![p].answered = @ + 1,
                                          ![p].writes = @ + 1]
                  /\ results' = PersistRun(results, p, runs[p], now)
                  /\ rareLeft' = rareLeft
             ELSE \* push the buyer message, issue the store call
                  /\ runs' = [runs EXCEPT
                        ![p].conversation = Push(@, "buyer", text),
                        ![p].pc = "store",
                        ![p].calls = @ + 1,
                        ![p].toolAt = IF toolResults # <<>>
                                      THEN runs[p].i + 1 ELSE @,
                        ![p].tools = toolResults,
                        ![p].pending = StoreCallPrompt(
                                          Push(runs[p].conversation, "buyer", text)),
                        ![p].answered = @ + 1,
                        ![p].produced = Append(@, text)]
                  /\ results' = results
                  /\ rareLeft' = RareLeftAfter(text)
    /\ UNCHANGED <<now, judgeVars, promptVars>>

\* the store-side generateText of run p returns text
StoreReturns(p) ==
    /\ runs[p].pc = "store"
    /\ \E text \in Texts :
          /\ TextAllowed(text)
          /\ rareLeft' = RareLeftAfter(text)
          /\ LET conv == Push(runs[p].conversation, "store", text)
                 i2   == runs[p].i + 1
             IN IF LoopContinues(i2)
                THEN /\ runs' = [runs EXCEPT ![p].conversation = conv,
                                             ![p].i = i2,
                                             ![p].pc = "buyer",
                                             ![p].calls = @ + 1,
                                             ![p].pending = BuyerCallPrompt(conv, p[1]),
                                             ![p].answered = @ + 1,
                                             ![p].produced = Append(@, text)]
                     /\ results' = results
                ELSE /\ runs' = [runs EXCEPT ![p].conversation = conv,
                                             ![p].i = i2,
                                             ![p].pc = "returned",
                                             ![p].ended = "exhausted",
                                             ![p].pending = <<>>,
                                             ![p].answered = @ + 1,
                                             ![p].produced = Append(@, text),
                                             ![p].writes = @ + 1]
                     /\ results' = PersistRun(results, p,
                                       [runs[p] EXCEPT !.conversation = conv],
                                       now)
    /\ UNCHANGED <<now, judgeVars, promptVars>>

\* variant: the failure of one run ends every run that is still going
CallFails_AbortsAll(p) ==
    /\ runs[p].pc \in {"buyer", "store"}
    /\ runs' = [q \in DOMAIN runs |->
                  IF runs[q].pc \in {"buyer", "store"}
                  THEN [runs[q] EXCEPT !.pc = "returned", !.ended = "failed",
                                       !.pending = <<>>, !.answered = @ + 1,
                                       !.writes = @ + 1]
                  ELSE runs[q]]
    /\ results' = AfterCatch(results, p, runs[p], now)
    /\ UNCHANGED <<now, rareLeft, judgeVars, promptVars>>

\* the pending generateText of run p throws
CallFails(p) ==
    /\ runs[p].pc \in {"buyer", "store"}
    /\ runs' = [runs EXCEPT ![p].pc = "returned", ![p].ended = "failed",
                            ![p].pending = <<>>, ![p].answered = @ + 1,
                            ![p].writes = @ + 1]
    /\ results' = AfterCatch(results, p, runs[p], now)
    /\ UNCHANGED <<now, rareLeft, judgeVars, promptVars>>

NextSim ==
    \/ Tick
    \/ RunAllModels
    \/ \E p \in DOMAIN runs : BuyerReturns(p)
    \/ \E p \in DOMAIN runs : StoreReturns(p)
    \/ \E p \in DOMAIN runs : CallFails(p)

SpecRun == InitRun /\ [][NextSim]_vars
SpecSim == InitSim /\ [][NextSim]_vars

----------------------------------------------------------------------------
(* The prompt builders applied to arbitrary conversations *)

Messages == {Message(from, text) : from \in {"buyer", "store"}, text \in Texts}

Conversations == UNION {[1..n -> Messages] : n \in 0..MaxLen}

InitPrompt ==
    /\ input \in Conversations
    /\ prompts = NoPrompts
    /\ runs = <<>>
    /\ results = <<>>
    /\ now = 0
    /\ rareLeft = 0
    /\ JudgeOff

\* conversationForUser(input, goal, language) is called
BuildForUser ==
    /\ prompts.user = <<>>
    /\ \E goal \in Goals :
          prompts' = [prompts EXCEPT !.user =
                         ConversationForUser(input, goal, Language)]
    /\ UNCHANGED <<input, results, simVars, judgeVars>>

\* conversationForStore(input, storeGoal) is called
BuildForStore ==
    /\ prompts.store = <<>>
    /\ prompts' = [prompts EXCEPT !.store =
                      ConversationForStore(input, StoreGoal)]
    /\ UNCHANGED <<input, results, simVars, judgeVars>>

NextPrompt == BuildForUser \/ BuildForStore

SpecPrompt == InitPrompt /\ [][NextPrompt]_vars

----------------------------------------------------------------------------
(* Judge: data *)

\* number of results files the simulator has left in ./results
MaxFiles == 11

\* limit(10)
CONCURRENCY == 10
\* the constant of `if (iteration > 10) throw error`
RETRY_CEILING == 10

\* identifiers of the persisted runs, in directory order
IdPool ==
    << "r01", "r02", "r03", "r04", "r05", "r06", "r07",
       "r08", "r09", "r10", "r11", "r12", "r13" >>

\* a directory entry that is no results file (".DS_Store")
JunkFile == <<"", "DS_Store">>

\* the order in which readdirSync lists the entries
DirOrder == <<JunkFile>> \o [k \in 1..Len(IdPool) |-> ResultsFile(IdPool[k])]

\* readdirSync("./results")
Readdir(dir) == SelectSeq(DirOrder, LAMBDA f : f \in DOMAIN dir)

\* file.endsWith(".json")
EndsWithJson(file) == Len(file) >= 2 /\ file[Len(file)] = "json"

\* variant: the last segment of the name is taken
FileId_Extension(file) == file[Len(file)]

\* const [id] = file.split(".")
FileId(file) == file[1]

\* the two `continue` guards of the loop of judgeAll
Skipped(file) == ~EndsWithJson(file) \/ FileId(file) = ""

\* the index of the first entry at or after k that judgeAll does not skip
\* (Len(files) + 1 when the loop runs off the end)
NextFile(files, k) ==
    LET rest == {j \in k..Len(files) : ~Skipped(files[j])}
    IN IF rest = {} THEN Len(files) + 1
       ELSE CHOOSE j \in rest : \A j2 \in rest : j <= j2

\* conversations the simulator persists: of a run whose first call failed,
\* of a run finished on its second turn, of a run whose first store call
\* failed after an empty buyer message
SampleConversation(k) ==
    CASE k % 3 = 0 -> <<>>
      [] k % 3 = 1 -> << Message("buyer", "hola"), Message("store", "hola") >>
      [] OTHER     -> << Message("buyer", "") >>

\* the record behind the k-th identifier
SampleRun(k) ==
    SimulationRecord(IF k % 2 = 0 THEN "address" ELSE "returns", "openaiO3",
                     ModelsToJudge["openaiO3"],
                     SampleConversation(k), 0, k % 2)

\* JSON.stringify({ conversation }): the field values in document order
Stringify(conversation) ==
    [k \in 1..(2 * Len(conversation)) |->
        IF k % 2 = 1 THEN conversation[(k + 1) \div 2].from
                     ELSE conversation[k \div 2].message]

\* the messages of the generateObject request
Request(run) ==
    << [role |-> "system", content |-> "judgingPrompt"],
       [role |-> "user",   content |-> Stringify(run.conversation)] >>

\* variant: the recursive call loses the conversation
RetryArgs_NoConversation(run) ==
    [ conversation |-> <<>>,
      endTime      |-> run.endTime,
      goal         |-> run.goal,
      model        |-> run.model,
      modelName    |-> run.modelName,
      startTime    |-> run.startTime ]

\* the argument object rebuilt for the recursive call of judge
RetryArgs(run) ==
    [ conversation |-> run.conversation,
      endTime      |-> run.endTime,
      goal         |-> run.goal,
      model        |-> run.model,
      modelName    |-> run.modelName,
      startTime    |-> run.startTime ]

\* catch: if (iteration > 10) throw error
Rethrows(iteration) == iteration > RETRY_CEILING

(* Evaluator output.  A JSON scalar carries its type; scores are counted in *)
(* hundredths (85 is 0.85).                                                 *)
Str(v) == [type |-> "string", text |-> v, number |-> 0]
Num(v) == [type |-> "number", text |-> "", number |-> v]

MetricNames == {"quality", "correctness", "grammar", "completeness"}

GoodMetric == [reasoning |-> Str("clear"), score |-> Num(85)]

GoodRaw == [m \in MetricNames |-> GoodMetric]

\* an object with a key the schema does not know
ExtraKeyRaw ==
    [m \in MetricNames \cup {"goal"} |->
        IF m = "goal" THEN "hijacked" ELSE GoodMetric]

\* an object that lacks a metric
MissingRaw == [m \in MetricNames \ {"completeness"} |-> GoodMetric]

\* a score that is a string
BadTypeRaw ==
    [GoodRaw EXCEPT !["grammar"] = [reasoning |-> Str("clear"), score |-> Str("0.85")]]

\* an empty reasoning
EmptyReasoningRaw ==
    [GoodRaw EXCEPT !["quality"] = [reasoning |-> Str(""), score |-> Num(85)]]

\* a score of 50.00, outside 0.00-1.00 and outside 0-10
OutOfScaleRaw ==
    [GoodRaw EXCEPT !["correctness"] = [reasoning |-> Str("clear"), score |-> Num(5000)]]

RawObjects ==
    << GoodRaw, ExtraKeyRaw, MissingRaw, BadTypeRaw, EmptyReasoningRaw,
       OutOfScaleRaw >>

\* variant: only the presence of the four keys is checked
SchemaAccepts_KeysOnly(raw) == \A m \in MetricNames : m \in DOMAIN raw

\* judgerSchema.safeParse(raw).success: four objects, each with a string
\* reasoning and a number score
SchemaAccepts(raw) ==
    \A m \in MetricNames :
        /\ m \in DOMAIN raw
        /\ raw[m].reasoning.type = "string"
        /\ raw[m].score.type = "number"

\* variant: unknown keys are passed through
SchemaParse_Passthrough(raw) == raw

\* the parsed object: z.object keeps the declared keys only
SchemaParse(raw) ==
    [m \in MetricNames |->
        [reasoning |-> raw[m].reasoning, score |-> raw[m].score]]

\* { ...a, ...b }
Spread(a, b) ==
    [k \in DOMAIN a \cup DOMAIN b |-> IF k \in DOMAIN b THEN b[k] ELSE a[k]]

\* the object judge serialises into ./judgements/<id>.json
JudgedRecord(id, run, object) ==
    Spread([ id           |-> id,
             goal         |-> run.goal,
             modelName    |-> run.modelName,
             startTime    |-> run.startTime,
             endTime      |-> run.endTime,
             conversation |-> run.conversation ],
           object)

\* The environment of the model: only the request about the first results
\* file meets transport failures and evaluator outputs other than GoodRaw.
Flaky(id) == id = IdPool[1]
Outputs(id) == IF Flaky(id) THEN RawObjects ELSE <<GoodRaw>>

----------------------------------------------------------------------------
(* Judge: state *)

\* status: "queued"   held back by the limiter
\*         "running"  judge called, a generateObject request outstanding
\*         "resolved" / "rejected"  the promise returned by limited(...)
\* iteration: the parameter of the running call of judge
\* run: the ExportedConversation the running call of judge was given
\* history: attempts, requests (the distinct requests sent), writes, object
\*          (the parsed evaluator result)
NewTask(id, run) ==
    [ id |-> id, run |-> run, status |-> "queued", iteration |-> 0,
      attempts |-> 0, requests |-> {}, writes |-> 0, object |-> <<>> ]

\* judge(id, run, iteration) up to its await: sends the request
CallJudge(t, run, iteration) ==
    [t EXCEPT !.status = "running", !.run = run, !.iteration = iteration,
              !.attempts = @ + 1, !.requests = @ \cup {Request(run)}]

ActiveCount(ts) == Cardinality({k \in 1..Len(ts) : ts[k].status = "running"})

\* variant: one slot too many
CanAdmit_OneMore(ts) == ActiveCount(ts) <= CONCURRENCY

\* p-limit: while fewer than CONCURRENCY tasks run, the head of the queue
\* is started
CanAdmit(ts) == ActiveCount(ts) < CONCURRENCY

\* variant: the task submitted last is started first
Admit_Newest(ts) ==
    LET queued == {k \in 1..Len(ts) : ts[k].status = "queued"}
    IN IF queued # {} /\ CanAdmit(ts)
       THEN LET h == CHOOSE k \in queued : \A k2 \in queued : k >= k2
            IN [ts EXCEPT ![h] = CallJudge(ts[h], ts[h].run, 0)]
       ELSE ts

Admit(ts) ==
    LET queued == {k \in 1..Len(ts) : ts[k].status = "queued"}
    IN IF queued # {} /\ CanAdmit(ts)
       THEN LET h == CHOOSE k \in queued : \A k2 \in queued : k <= k2
            IN [ts EXCEPT ![h] = CallJudge(ts[h], ts[h].run, 0)]
       ELSE ts

\* await Promise.all(promises), the return of judgeAll and the top-level
\* await: a rejected promise rejects all three and ends the process
AwaitAll(ts) ==
    IF \E k \in 1..Len(ts) : ts[k].status = "rejected" THEN "crashed"
    ELSE IF \A k \in 1..Len(ts) : ts[k].status = "resolved" THEN "done"
    ELSE "awaiting"

\* ./results as the simulator leaves it after n runs, plus one file that is
\* not a run
ResultsDir(n) ==
    [f \in {JunkFile} \cup {ResultsFile(IdPool[k]) : k \in 1..n} |->
        IF f = JunkFile THEN SampleRun(0)
        ELSE SampleRun(CHOOSE k \in 1..n : IdPool[k] = f[1])]

JudgeInit(n) ==
    /\ runs = <<>>
    /\ results = ResultsDir(n)
    /\ now = 0
    /\ rareLeft = 0
    /\ jpc = "start"
    /\ fi = 0
    /\ tasks = <<>>
    /\ judgements = <<>>
    /\ PromptOff

\* one run more than the limiter admits at once
InitJudge == JudgeInit(MaxFiles)

\* two runs more than the limiter admits at once: the least directory in
\* which two tasks wait in the queue of the limiter
InitJudgeQueue == JudgeInit(CONCURRENCY + 2)

\* judgeAll is called: the directory is listed and the loop runs to its first
\* await f.json(), or past its end
JudgeAllStart ==
    /\ jpc = "start"
    /\ LET k == NextFile(Readdir(results), 1)
       IN /\ fi' = k
          /\ jpc' = IF k > Len(Readdir(results)) THEN AwaitAll(tasks)
                    ELSE "reading"
    /\ UNCHANGED <<tasks, judgements, results, simVars, promptVars>>

\* f.json() resolves: the task is handed to the limiter, which starts it when
\* a slot is free; the loop runs to its next await
FileRead ==
    /\ jpc = "reading"
    /\ LET files == Readdir(results)
           file  == files[fi]
           ts    == Admit(Append(tasks, NewTask(FileId(file), results[file])))
           k     == NextFile(files, fi + 1)
       IN /\ tasks' = ts
          /\ fi' = k
          /\ jpc' = IF k > Len(files) THEN AwaitAll(ts) ELSE "reading"
    /\ UNCHANGED <<judgements, results, simVars, promptVars>>

\* the position of judgeAll after task k has settled as ts[k].status
MainAfterSettle(ts) == IF jpc = "awaiting" THEN AwaitAll(ts) ELSE jpc

\* variant: at the ceiling the error is swallowed and judge returns
CatchJudge_Swallow(t) ==
    IF Rethrows(t.iteration)
    THEN [t EXCEPT !.status = "resolved"]
    ELSE CallJudge(t, RetryArgs(t.run), t.iteration + 1)

\* the catch block of judge for task t
CatchJudge(t) ==
    IF Rethrows(t.iteration)
    THEN [t EXCEPT !.status = "rejected"]
    ELSE CallJudge(t, RetryArgs(t.run), t.iteration + 1)

\* the request of task k throws, or its output fails the schema
AttemptFails(k) ==
    LET t  == CatchJudge(tasks[k])
        ts == Admit([tasks EXCEPT ![k] = t])
    IN /\ tasks' = ts
       /\ IF t.status = "rejected" /\ jpc = "reading"
          THEN \* no handler is attached yet: the runtime ends the process on
               \* the unhandled rejection, or carries on
               jpc' \in {"reading", "crashed"}
          ELSE jpc' = MainAfterSettle(ts)
       /\ UNCHANGED <<fi, judgements, results, simVars, promptVars>>

\* the generateObject request of task k throws
EvaluatorFails(k) ==
    /\ jpc \in {"reading", "awaiting"}
    /\ k \in 1..Len(tasks)
    /\ tasks[k].status = "running"
    /\ Flaky(tasks[k].id)
    /\ AttemptFails(k)

\* the evaluator answers the request of task k
EvaluatorAnswers(k) ==
    /\ jpc \in {"reading", "awaiting"}
    /\ k \in 1..Len(tasks)
    /\ tasks[k].status = "running"
    /\ \E n \in 1..Len(Outputs(tasks[k].id)) :
          LET raw == Outputs(tasks[k].id)[n] IN
          IF SchemaAccepts(raw)
          THEN LET t0 == tasks[k]
                   obj == SchemaParse(raw)
                   t  == [t0 EXCEPT !.status = "resolved", !.object = obj,
                                    !.writes = @ + 1]
                   ts == Admit([tasks EXCEPT ![k] = t])
               IN /\ judgements' = BunWrite(judgements, t0.id,
                                       JudgedRecord(t0.id, t0.run, obj))
                  /\ tasks' = ts
                  /\ jpc' = MainAfterSettle(ts)
                  /\ UNCHANGED <<fi, results, simVars, promptVars>>
          ELSE AttemptFails(k)

NextJudge ==
    \/ JudgeAllStart
    \/ FileRead
    \/ \E k \in DOMAIN tasks : EvaluatorFails(k)
    \/ \E k \in DOMAIN tasks : EvaluatorAnswers(k)

SpecJudge == InitJudge /\ [][NextJudge]_vars

SpecJudgeQueue == InitJudgeQueue /\ [][NextJudge]_vars

----------------------------------------------------------------------------
(* Properties of the simulator *)

RunFile(p) == ResultsFile(runs[p].id)

Alternates(conversation) ==
    \A k \in 1..Len(conversation) :
        conversation[k].from = IF k % 2 = 1 THEN "buyer" ELSE "store"

\* C1 as stated: a run whose model call threw leaves no results record.
C1_Original ==
    \A p \in DOMAIN runs :
        runs[p].ended = "failed" => RunFile(p) \notin DOMAIN results

\* C1 as amended: when a model call throws in the loop of runCase, the failure
\* is swallowed (runCase returns) and the run is persisted all the same: its
\* results record exists and holds the partial conversation gathered so far.
C1_FailedRunIsPersisted ==
    \A p \in DOMAIN runs :
        runs[p].ended = "failed" =>
            /\ runs[p].pc = "returned"
            /\ RunFile(p) \in DOMAIN results
            /\ results[RunFile(p)].conversation = runs[p].conversation
            /\ results[RunFile(p)].goal = p[1]

\* a store call failed after the buyer message of the second turn
C1_Witness ==
    \E p \in DOMAIN runs :
        /\ runs[p].ended = "failed"
        /\ Len(runs[p].conversation) = 3
        /\ RunFile(p) \in DOMAIN results

\* C3: in every state of a run the conversation has at most
\* 2 x MAX_CONVERSATION_LENGTH messages, buyer at the even 0-based positions
\* and store at the odd ones; the same holds of every persisted conversation.
C3_BoundedAlternating ==
    /\ \A p \in DOMAIN runs :
          /\ Len(runs[p].conversation) <= 2 * MAX_CONVERSATION_LENGTH
          /\ Alternates(runs[p].conversation)
    /\ \A f \in DOMAIN results :
          /\ Len(results[f].conversation) <= 2 * MAX_CONVERSATION_LENGTH
          /\ Alternates(results[f].conversation)

\* a run that used all its turns and was persisted with 20 messages
C3_Witness ==
    \E p \in DOMAIN runs :
        /\ runs[p].ended = "exhausted"
        /\ Len(runs[p].conversation) = 2 * MAX_CONVERSATION_LENGTH
        /\ RunFile(p) \in DOMAIN results
        /\ Len(results[RunFile(p)].conversation) = 2 * MAX_CONVERSATION_LENGTH

\* C4: once the buyer call of iteration k has returned a finishedGoal result,
\* runCase has returned, the call was the last one of the run (2k - 1 calls),
\* nothing of iteration k was appended and the conversation, also as
\* persisted, has exactly 2(k - 1) messages.
C4_FinishedGoalStops ==
    \A p \in DOMAIN runs :
        runs[p].toolAt > 0 =>
            /\ runs[p].pc = "returned"
            /\ runs[p].calls = 2 * runs[p].toolAt - 1
            /\ Len(runs[p].conversation) = 2 * (runs[p].toolAt - 1)
            /\ RunFile(p) \in DOMAIN results
            /\ results[RunFile(p)].conversation = runs[p].conversation

\* completion on turn 2: one buyer and one store message
C4_Witness ==
    \E p \in DOMAIN runs :
        /\ runs[p].toolAt = 2
        /\ runs[p].conversation \in
              { << Message("buyer", a), Message("store", b) >> : a, b \in Texts }
        /\ RunFile(p) \in DOMAIN results

----------------------------------------------------------------------------
(* Properties of the judge *)

TaskIndex == 1..Len(tasks)

Settled(t) == t.status \in {"resolved", "rejected"}

\* admitted by the limiter and not settled yet
InFlight(t) == t.attempts > 0 /\ ~Settled(t)

\* requests sent and not answered yet
Outstanding(t) == IF Settled(t) THEN 0 ELSE t.attempts - t.iteration

\* the results record task t was created from
Origin(t) == results[ResultsFile(t.id)]

ProcessOver == jpc \in {"done", "crashed"}

\* C2 as stated: one call of judge sends at most 11 requests.
C2_Original == \A k \in TaskIndex : tasks[k].attempts <= 11

\* C5: at most 10 judge tasks are in flight and at most 10 evaluator requests
\* are outstanding; a task that is retrying still holds its slot, so while 10
\* tasks are in flight every further task stays queued.
C5_BoundedConcurrency ==
    LET inFlight == {k \in TaskIndex : InFlight(tasks[k])}
    IN /\ Cardinality(inFlight) <= CONCURRENCY
       /\ \A k \in TaskIndex : Outstanding(tasks[k]) \in {0, 1}
       /\ Cardinality({k \in TaskIndex : Outstanding(tasks[k]) = 1})
             <= CONCURRENCY
       /\ \A k \in TaskIndex :
             tasks[k].iteration > 0 /\ ~Settled(tasks[k]) => k \in inFlight

\* ten tasks in flight, one of them retrying, an eleventh held back
C5_Witness ==
    /\ Cardinality({k \in TaskIndex : InFlight(tasks[k])}) = CONCURRENCY
    /\ \E k \in TaskIndex : InFlight(tasks[k]) /\ tasks[k].iteration > 0
    /\ \E k \in TaskIndex : tasks[k].status = "queued"

\* C6 as stated: when the process is over, every results file other than
\* those whose own judging failed permanently has its judgement.
C6_Original ==
    ProcessOver =>
        \A f \in DOMAIN results :
            ~Skipped(f) =>
                \/ \E k \in TaskIndex :
                      tasks[k].id = FileId(f) /\ tasks[k].status = "rejected"
                \/ FileId(f) \in DOMAIN judgements

\* C7: a task none of whose attempts succeeded has no judgement record,
\* whether it is still retrying or has given up, and when it gives up its
\* promise is rejected: a promise resolves only with the record written.
C7_FailureWritesNothing ==
    \A k \in TaskIndex :
        /\ tasks[k].status # "resolved" =>
              /\ tasks[k].id \notin DOMAIN judgements
              /\ tasks[k].writes = 0
        /\ tasks[k].status = "resolved" => tasks[k].id \in DOMAIN judgements
        /\ Rethrows(tasks[k].iteration) /\ Settled(tasks[k]) /\ tasks[k].writes = 0
              => tasks[k].status = "rejected"

\* every attempt failed and the promise is rejected
C7_Witness ==
    \E k \in TaskIndex :
        /\ tasks[k].status = "rejected"
        /\ tasks[k].attempts = tasks[k].iteration + 1
        /\ tasks[k].id \notin DOMAIN judgements

\* C8: every attempt of a task sends the request built from its results
\* record; a task writes at most once, and once resolved it has written
\* exactly the record a first attempt with the same evaluator result writes.
C8_RetryIdempotent ==
    \A k \in TaskIndex :
        LET t == tasks[k]
        IN /\ t.requests \subseteq {Request(Origin(t))}
           /\ t.writes <= 1
           /\ t.status = "resolved" =>
                 /\ t.writes = 1
                 /\ judgements[t.id] = JudgedRecord(t.id, Origin(t), t.object)

\* the last attempt the ceiling allows succeeded
C8_Witness ==
    \E k \in TaskIndex :
        /\ tasks[k].status = "resolved"
        /\ Rethrows(tasks[k].iteration)
        /\ tasks[k].attempts = tasks[k].iteration + 1
        /\ tasks[k].writes = 1

\* the widest scale the source documents: 0 to 10, in hundredths
InScale(score) == score.number >= 0 /\ score.number <= 1000

\* C9 as stated: every persisted metric has a non-empty reasoning and a score
\* within the documented scale.
C9_Original ==
    \A id \in DOMAIN judgements :
        \A m \in MetricNames :
            /\ judgements[id][m].reasoning.text # ""
            /\ InScale(judgements[id][m].score)

RunKeys == {"id", "goal", "modelName", "startTime", "endTime", "conversation"}

\* C9 as amended: every persisted JudgedRun holds, next to the run's fields,
\* exactly the four metrics, each with a reasoning that is a string and a
\* score that is a number; an evaluator result that lacks a metric or has a
\* field of another type is never persisted.
C9_SchemaShape ==
    \A id \in DOMAIN judgements :
        /\ DOMAIN judgements[id] = RunKeys \cup MetricNames
        /\ \A m \in MetricNames :
              /\ DOMAIN judgements[id][m] = {"reasoning", "score"}
              /\ judgements[id][m].reasoning.type = "string"
              /\ judgements[id][m].score.type = "number"

\* a judgement persisted with an empty reasoning or a score of 50
C9_Witness ==
    \E id \in DOMAIN judgements :
        \/ judgements[id]["quality"].reasoning.text = ""
        \/ judgements[id]["correctness"].score.number = 5000

\* C10: every judgement record is keyed by the identifier of a results
\* record, carries that identifier, and has the goal, modelName, startTime,
\* endTime and conversation of that results record; no two tasks share an
\* identifier.
C10_RunFieldsKept ==
    /\ \A id \in DOMAIN judgements :
          /\ ResultsFile(id) \in DOMAIN results
          /\ judgements[id].id = id
          /\ \A key \in RunKeys \ {"id"} :
                judgements[id][key] = results[ResultsFile(id)][key]
    /\ \A j, k \in TaskIndex : tasks[j].id = tasks[k].id => j = k

\* the judgement of the first results file, written after a retry
C10_Witness ==
    \E k \in TaskIndex :
        /\ tasks[k].status = "resolved"
        /\ tasks[k].iteration > 0
        /\ Flaky(tasks[k].id)
        /\ judgements[tasks[k].id].conversation = Origin(tasks[k]).conversation
        /\ Len(judgements[tasks[k].id].conversation) > 0

----------------------------------------------------------------------------
(* Properties of the prompt builders *)

\* the positions of the input messages whose text is not empty
NonEmptyAt == {k \in 1..Len(input) : input[k].message # ""}

\* the position of the j-th of them
NthNonEmpty(j) ==
    CHOOSE k \in NonEmptyAt : Cardinality({k2 \in NonEmptyAt : k2 <= k}) = j

\* the replayed history of a prompt that starts with n fixed messages
History(prompt, n) == SubSeq(prompt, n + 1, Len(prompt))

\* the author of a history message in a prompt where `played` is the
\* assistant
AuthorOf(m, played) ==
    IF m.role = "assistant" THEN played
    ELSE IF played = "buyer" THEN "store" ELSE "buyer"

\* no history message is empty, and the history is the non-empty input
\* messages, each once, in their order: the j-th history message carries the
\* text and the author of the j-th non-empty input message
ReplaysNonEmpty(history, played) ==
    /\ Len(history) = Cardinality(NonEmptyAt)
    /\ \A j \in 1..Len(history) :
          /\ history[j].content # ""
          /\ history[j].content = input[NthNonEmpty(j)].message
          /\ AuthorOf(history[j], played) = input[NthNonEmpty(j)].from

\* C11: in a prompt built by conversationForUser or conversationForStore no
\* replayed message has an empty text and every non-empty message of the
\* conversation is replayed exactly once, in the original order.
C11_FilterInvariant ==
    /\ prompts.user # <<>> => ReplaysNonEmpty(History(prompts.user, 2), "buyer")
    /\ prompts.store # <<>> => ReplaysNonEmpty(History(prompts.store, 1), "store")

\* both prompts built from a conversation with an empty message between two
\* non-empty ones of different text and author: their order shows in the
\* history
C11_Witness ==
    /\ prompts.user # <<>>
    /\ prompts.store # <<>>
    /\ Len(input) = 3
    /\ input[1] = Message("buyer", "adeu")
    /\ input[2].message = ""
    /\ input[3] = Message("store", "hola")
    /\ History(prompts.store, 1)[1].content = "adeu"
    /\ History(prompts.store, 1)[2].content = "hola"

\* the role under which the j-th history message must appear
RolesFollow(history, played) ==
    \A j \in 1..Len(history) :
        /\ j <= Cardinality(NonEmptyAt)
        /\ history[j].role =
              IF input[NthNonEmpty(j)].from = played THEN "assistant" ELSE "user"
        /\ history[j].content = input[NthNonEmpty(j)].message

\* C18: conversationForUser renders buyer messages as assistant and store
\* messages as user, conversationForStore the other way round; both carry the
\* text over unchanged and put the system instruction first.
C18_RoleMapping ==
    /\ prompts.user # <<>> =>
          /\ prompts.user[1].role = "system"
          /\ prompts.user[1].content.template = "buyer"
          /\ prompts.user[1].content.goal \in Goals
          /\ RolesFollow(History(prompts.user, 2), "buyer")
    /\ prompts.store # <<>> =>
          /\ prompts.store[1].role = "system"
          /\ prompts.store[1].content = StoreGoal
          /\ RolesFollow(History(prompts.store, 1), "store")

\* both prompts built from a conversation with a buyer and a store message
C18_Witness ==
    /\ prompts.user # <<>>
    /\ prompts.store # <<>>
    /\ \E j, k \in NonEmptyAt : input[j].from = "buyer" /\ input[k].from = "store"

----------------------------------------------------------------------------
(* Further properties of the simulator *)

HasEmptyText(conversation) ==
    \E k \in 1..Len(conversation) : conversation[k].message = ""

\* C12: a run none of whose calls failed has left its loop before
\* MAX_CONVERSATION_LENGTH iterations were completed exactly when a buyer call
\* returned a finishedGoal result, whatever its finished flag; otherwise, empty
\* texts or not, it completed MAX_CONVERSATION_LENGTH iterations and holds
\* 2 x MAX_CONVERSATION_LENGTH messages.
C12_SoleEarlyStop ==
    \A p \in DOMAIN runs :
        runs[p].pc = "returned" /\ runs[p].ended # "failed" =>
            /\ runs[p].i < MAX_CONVERSATION_LENGTH <=> runs[p].toolAt > 0
            /\ runs[p].toolAt > 0 =>
                  /\ runs[p].ended = "finished"
                  /\ runs[p].tools # <<>>
            /\ runs[p].toolAt = 0 =>
                  /\ runs[p].ended = "exhausted"
                  /\ runs[p].i = MAX_CONVERSATION_LENGTH
                  /\ Len(runs[p].conversation) = 2 * MAX_CONVERSATION_LENGTH

\* finishedGoal with finished: false stopped a run that an earlier empty text
\* had not stopped
C12_Witness ==
    \E p \in DOMAIN runs :
        /\ runs[p].ended = "finished"
        /\ runs[p].tools # <<>>
        /\ ~runs[p].tools[1].finished
        /\ HasEmptyText(runs[p].conversation)
        /\ runs[p].i < MAX_CONVERSATION_LENGTH

Started == {p \in DOMAIN runs : runs[p].pc # "idle"}

C13_State ==
    /\ DOMAIN runs = Pairs
    /\ \A p \in DOMAIN runs :
          /\ runs[p].starts = IF p \in Started THEN 1 ELSE 0
          /\ runs[p].ended \in {"finished", "exhausted"} =>
                /\ runs[p].writes = 1
                /\ RunFile(p) \in DOMAIN results
                /\ results[RunFile(p)].goal = p[1]
                /\ results[RunFile(p)].modelName = p[2]
                /\ results[RunFile(p)].conversation = runs[p].conversation
          /\ p \in Started /\ runs[p].pc # "returned" =>
                /\ runs[p].writes = 0
                /\ RunFile(p) \notin DOMAIN results
    /\ \A p, q \in Started : p # q => runs[p].id # runs[q].id

C13_Step ==
    \A p \in DOMAIN runs :
        runs[p].pc = "returned" =>
            /\ runs'[p] = runs[p]
            /\ RunFile(p) \in DOMAIN results'
            /\ results'[RunFile(p)] = results[RunFile(p)]

\* C13: runCase is called once for every (goal, model) pair; a run whose loop
\* ended without a failure has written once, under an identifier no other run
\* has, the record of its pair with the whole conversation, and nothing was
\* written before the loop ended; after the write neither the run nor its
\* record changes.
C13_PersistedOnce == []C13_State /\ [][C13_Step]_vars

\* both runs persisted, one finished early and one after all its turns
C13_Witness ==
    \E p, q \in DOMAIN runs :
        /\ runs[p].ended = "finished"
        /\ runs[q].ended = "exhausted"
        /\ RunFile(p) # RunFile(q)
        /\ {RunFile(p), RunFile(q)} \subseteq DOMAIN results

\* the conversation of a run is the texts its own calls returned, in order
OwnMessages(r) ==
    /\ Len(r.conversation) = Len(r.produced)
    /\ \A k \in 1..Len(r.conversation) : r.conversation[k].message = r.produced[k]
    /\ Len(r.produced) =
          r.answered - (IF r.ended \in {"failed", "finished"} THEN 1 ELSE 0)

C14_Step ==
    \A p, q \in DOMAIN runs :
        p # q /\ runs[p].pc # "idle" /\ runs'[p] # runs[p] =>
            /\ runs'[q] = runs[q]
            /\ RunFile(q) \in DOMAIN results =>
                  /\ RunFile(q) \in DOMAIN results'
                  /\ results'[RunFile(q)] = results[RunFile(q)]

\* C14: the conversation of every run holds exactly the texts returned by
\* that run's own calls, and a step of one run (a reply, an early
\* termination, a failure) leaves every other run and its record as they
\* were.
C14_RunsIndependent == [](\A p \in DOMAIN runs : OwnMessages(runs[p])) /\ [][C14_Step]_vars

\* one run failed on its first call and the other still used all its turns
C14_Witness ==
    \E p, q \in DOMAIN runs :
        /\ runs[p].ended = "failed"
        /\ runs[p].conversation = <<>>
        /\ runs[q].ended = "exhausted"
        /\ Len(runs[q].conversation) = 2 * MAX_CONVERSATION_LENGTH

\* C17: a run has at most one call outstanding; while the store call of
\* iteration i is outstanding the conversation ends with the buyer message of
\* iteration i and the call's prompt is the store prompt of that conversation;
\* while a buyer call is outstanding the conversation ends with the store
\* reply of the previous iteration and the prompt is the buyer prompt of it.
C17_Sequential ==
    \A p \in DOMAIN runs :
        LET r == runs[p]
            n == Len(r.conversation)
        IN /\ r.calls - r.answered \in {0, 1}
           /\ r.calls - r.answered = 1 <=> r.pc \in {"buyer", "store"}
           /\ r.pc = "store" =>
                 /\ r.calls = 2 * r.i + 2
                 /\ n = 2 * r.i + 1
                 /\ r.conversation[n].from = "buyer"
                 /\ r.pending = ConversationForStore(r.conversation, StoreGoal)
                 /\ r.conversation[n].message # "" =>
                       r.pending[Len(r.pending)] =
                          [role |-> "user", content |-> r.conversation[n].message]
           /\ r.pc = "buyer" =>
                 /\ r.calls = 2 * r.i + 1
                 /\ n = 2 * r.i
                 /\ n > 0 => r.conversation[n].from = "store"
                 /\ r.pending = ConversationForUser(r.conversation, p[1], Language)

\* the store call of the second iteration is outstanding
C17_Witness ==
    \E p \in DOMAIN runs :
        /\ runs[p].pc = "store"
        /\ runs[p].i = 1
        /\ runs[p].conversation[3].message # ""
        /\ Len(runs[p].pending) >= 2

\* C20: the conversation of a run keeps every text its calls returned, the
\* empty ones too, while the prompt of the outstanding call replays the
\* non-empty ones only; the persisted record holds the whole conversation and
\* the judge's request serialises every message of it.
C20_EmptyTextsKept ==
    \A p \in DOMAIN runs :
        LET r == runs[p]
            nonEmpty == {k \in 1..Len(r.conversation) : r.conversation[k].message # ""}
        IN /\ Len(r.conversation) = Len(r.produced)
           /\ \A k \in 1..Len(r.produced) :
                 r.conversation[k].message = r.produced[k]
           /\ r.pc = "buyer" => Len(r.pending) = 2 + Cardinality(nonEmpty)
           /\ r.pc = "store" => Len(r.pending) = 1 + Cardinality(nonEmpty)
           /\ r.pc = "returned" =>
                 LET c == results[RunFile(p)].conversation
                 IN /\ c = r.conversation
                    /\ Len(Stringify(c)) = 2 * Len(c)
                    /\ \A k \in 1..Len(c) : Stringify(c)[2 * k] = r.produced[k]

\* a persisted conversation with an empty text that was followed by replies
C20_Witness ==
    \E p \in DOMAIN runs :
        /\ runs[p].pc = "returned"
        /\ Len(runs[p].conversation) >= 3
        /\ runs[p].conversation[1].message = ""
        /\ results[RunFile(p)].conversation[1].message = ""
        /\ Alternates(results[RunFile(p)].conversation)

----------------------------------------------------------------------------
(* Further properties of the judge *)

C16_State ==
    /\ \A k, j \in TaskIndex : k # j => tasks[k].id # tasks[j].id
    /\ \A k \in TaskIndex :
          /\ tasks[k].writes <= 1
          /\ tasks[k].writes = 1 <=> tasks[k].status = "resolved"
    /\ \A id \in DOMAIN judgements :
          Cardinality({k \in TaskIndex : tasks[k].id = id /\ tasks[k].writes > 0}) = 1

C16_Step ==
    \A id \in DOMAIN judgements :
        id \in DOMAIN judgements' /\ judgements'[id] = judgements[id]

\* C16: the judge tasks of one batch have pairwise distinct identifiers, each
\* task writes its record at most once (when it resolves), every record has
\* exactly one writer, and a record that was written is never written again.
C16_WriteOnce == []C16_State /\ [][C16_Step]_vars

\* every run of the batch has its record, the first after retries
C16_Witness ==
    /\ jpc = "done"
    /\ Len(tasks) = MaxFiles
    /\ Cardinality(DOMAIN judgements) = MaxFiles
    /\ \E k \in TaskIndex : tasks[k].attempts > 1 /\ tasks[k].writes = 1

QueuedTasks == {k \in TaskIndex : tasks[k].status = "queued"}

\* the tasks the limiter has started are the first ones submitted
C19_State ==
    /\ \A k, j \in TaskIndex :
          k < j /\ tasks[j].status # "queued" => tasks[k].status # "queued"
    /\ QueuedTasks # {} => ActiveCount(tasks) = CONCURRENCY

\* a task leaves the queue in the step in which a running task settles, and a
\* task is started on submission only when fewer than CONCURRENCY run
C19_Step ==
    \A k \in QueuedTasks :
        tasks'[k].status # "queued" =>
            /\ \E j \in TaskIndex :
                  tasks[j].status = "running" /\ Settled(tasks'[j])
            /\ \A j \in QueuedTasks : k <= j

\* C19: the limiter starts tasks in the order of their submission: the
\* started tasks are always the first ones submitted, CONCURRENCY tasks run
\* while any task is queued, and a queued task is started only in the step in
\* which a running task settles, the one queued longest first.
C19_SubmissionOrder == []C19_State /\ [][C19_Step]_vars

\* of two queued tasks the one submitted first has been started and the other
\* still waits
C19_Witness ==
    /\ Len(tasks) = CONCURRENCY + 2
    /\ tasks[CONCURRENCY + 1].status = "running"
    /\ tasks[CONCURRENCY + 2].status = "queued"
    /\ \E j \in TaskIndex : Settled(tasks[j])

\* C15 as stated, for the limiter: when the process is over every task that
\* was handed to the limiter has been admitted.
C15_Original == ProcessOver => \A k \in TaskIndex : tasks[k].attempts > 0

====
